---- MODULE Spec2Model ----
(***************************************************************************)
(* A state-machine model of src/wrappers/Jetton.ts: the snake encoder and  *)
(* metadata dictionary builder (buildTokenMetadataCell), the mint frame    *)
(* encoder (mintBody), and the contract facade's senders (Jetton.send and  *)
(* Jetton.sendMint).                                                       *)
(*                                                                         *)
(* Cells are modelled at field level: a finalized cell is a record         *)
(* [bits, refs] whose bits are the ordered stored fields and whose refs    *)
(* are the ordered child cells.  A Builder is the same record while it is  *)
(* still written to.  Strings are sequences of UTF-16 code units, buffers  *)
(* are sequences of bytes.                                                 *)
(***************************************************************************)
EXTENDS Integers, Sequences, FiniteSets, TLC

VARIABLES
  op,            \* the exported operation being executed, or "idle"
  pc,            \* position inside that operation (source line labels)
  data,          \* buildTokenMetadataCell: the input mapping, in Object.entries order
  idx,           \* buildTokenMetadataCell: index of the forEach entry being processed
  dict,          \* buildTokenMetadataCell: the Dictionary built so far (key -> Cell)
  bufferToStore, \* buildTokenMetadataCell: bytes of the current value not yet stored
  builders,      \* buildTokenMetadataCell: the Builder objects of the current entry
  currentCell,   \* buildTokenMetadataCell: index in builders of currentCell (rootCell is 1)
  mintArgs,      \* mintBody: its parameters
  opts,          \* Jetton.sendMint: its opts parameter
  args,          \* Jetton.send: its args parameter
  message,       \* Jetton.send: its message parameter
  body,          \* Jetton.send: the local variable body
  sent,          \* the calls made to provider.internal by the running operation
  result         \* what the operation returned or threw

vars == <<op, pc, data, idx, dict, bufferToStore, builders, currentCell,
          mintArgs, opts, args, message, body, sent, result>>

----------------------------------------------------------------------------
(* Bounds of the model *)

\* the longest swept value has MaxChunks * CELL_MAX_SIZE_BYTES + 1 characters
MaxChunks == 3
\* the largest number of entries of an enumerated input mapping
MaxEntries == 2

----------------------------------------------------------------------------
(* Program constants *)

ONCHAIN_CONTENT_PREFIX == 0
SNAKE_PREFIX == 0
KEYLEN == 256
OpMint == 21
OpInternalTransfer == 395134233
\* 2412644301 and 2078119902, as their four big-endian bytes
OpJettonInitial == <<143, 206, 7, 205>>
OpTokenBurnNotification == <<123, 221, 151, 222>>
\* bit budget of one cell of the cell library
CellBits == 1023
\* Math.floor((1023 - 8) / 8)
CELL_MAX_SIZE_BYTES == (CellBits - 8) \div 8

----------------------------------------------------------------------------
(* Strings and buffers *)

Min(a, b) == IF a < b THEN a ELSE b

\* Buffer.prototype.slice(from) and slice(0, to), 0-based as in the source
SliceFrom(buf, from) == SubSeq(buf, Min(from, Len(buf)) + 1, Len(buf))
SliceTo(buf, to) == SubSeq(buf, 1, Min(to, Len(buf)))

\* UTF-8 bytes of one code unit below 0x10000 (no surrogates in the inputs)
Utf8Char(c) ==
  IF c < 128 THEN <<c>>
  ELSE IF c < 2048 THEN <<192 + (c \div 64), 128 + (c % 64)>>
  ELSE <<224 + (c \div 4096), 128 + ((c \div 64) % 64), 128 + (c % 64)>>

RECURSIVE Utf8(_)
Utf8(s) ==
  IF Len(s) = 0 THEN <<>>
  ELSE IF Len(s) = 1 THEN Utf8Char(s[1])
  ELSE LET half == Len(s) \div 2
       IN Utf8(SubSeq(s, 1, half)) \o Utf8(SubSeq(s, half + 1, Len(s)))

\* Node's "ascii" encoding writes like "latin1": the low byte of each code unit
Latin1(s) == [i \in 1..Len(s) |-> s[i] % 256]

\* Buffer.from(v, encoding); an encoding that is not a string falls back to utf8
BufferFrom(s, encoding) == IF encoding = "ascii" THEN Latin1(s) ELSE Utf8(s)

\* sha256(str): the digests of the key names used by the model
Sha256(str) ==
  CASE str = "name" -> <<130, 163, 83, 127, 240, 219, 206, 126, 236, 53, 214, 158, 220, 58, 24, 158, 230, 241, 125, 130, 243, 83, 165, 83, 249, 170, 150, 203, 11, 227, 206, 137>>
    [] str = "description" -> <<201, 4, 111, 122, 55, 173, 14, 167, 206, 231, 51, 85, 152, 79, 165, 66, 137, 130, 248, 179, 124, 143, 123, 206, 201, 31, 122, 199, 26, 124, 209, 4>>
    [] str = "image" -> <<97, 5, 214, 204, 118, 175, 64, 3, 37, 233, 77, 88, 140, 229, 17, 190, 91, 253, 187, 115, 180, 55, 220, 81, 236, 164, 57, 23, 215, 164, 62, 61>>
    [] str = "symbol" -> <<183, 106, 124, 161, 83, 194, 70, 113, 101, 131, 53, 187, 208, 137, 70, 53, 15, 252, 98, 31, 161, 197, 22, 231, 18, 48, 149, 212, 255, 213, 197, 129>>
    [] str = "constructor" -> <<227, 193, 112, 58, 191, 138, 107, 61, 240, 77, 211, 14, 24, 79, 224, 43, 182, 114, 79, 70, 131, 11, 84, 69, 98, 255, 8, 49, 105, 55, 16, 104>>
    [] str = "decimals" -> <<238, 128, 253, 47, 30, 3, 72, 14, 34, 130, 54, 53, 150, 238, 117, 45, 123, 178, 127, 80, 119, 107, 149, 8, 106, 2, 121, 24, 150, 117, 146, 62>>

\* the dictionary key of line 138: sha256(k).slice(0, KEYLEN)
DictKey(k) == SliceTo(Sha256(k), KEYLEN)

----------------------------------------------------------------------------
(* The cell library: Builder and Cell *)

NewBuilder == [bits |-> <<>>, refs |-> <<>>]
EmptyCell == [bits |-> <<>>, refs |-> <<>>]

\* the w \div 8 big-endian bytes of the unsigned integer n
RECURSIVE BigEndian(_, _)
BigEndian(n, count) ==
  IF count = 0 THEN <<>> ELSE BigEndian(n \div 256, count - 1) \o <<n % 256>>

\* storeUint(n, w) for a width of whole bytes; the field keeps its bytes
StoreUintBytes(b, bytes) ==
  [b EXCEPT !.bits = Append(@, [t |-> "uint", w |-> 8 * Len(bytes), bytes |-> bytes])]
StoreUint(b, n, w) == StoreUintBytes(b, BigEndian(n, w \div 8))
StoreInt(b, n, w) == [b EXCEPT !.bits = Append(@, [t |-> "int", w |-> w, n |-> n])]
StoreBit(b, x) == [b EXCEPT !.bits = Append(@, [t |-> "bit", x |-> x])]
StoreCoins(b, n) == [b EXCEPT !.bits = Append(@, [t |-> "coins", n |-> n])]
StoreAddress(b, a) == [b EXCEPT !.bits = Append(@, [t |-> "addr", a |-> a])]
StoreBuffer(b, buf) == [b EXCEPT !.bits = Append(@, [t |-> "buf", b |-> buf])]
StoreDict(b, d) == [b EXCEPT !.bits = Append(@, [t |-> "dict", d |-> d])]

\* endCell() copies what the builder holds at the moment of the call
EndCell(b) == [bits |-> b.bits, refs |-> b.refs]

\* storeRef(cell) with a finalized Cell
StoreRef(b, cell) == [b EXCEPT !.refs = Append(@, cell)]
\* storeRef(builder): the library finalizes the builder it is given, there and then
StoreRefBuilder(b, child) == StoreRef(b, EndCell(child))

\* the number of bytes of the shortest big-endian form of n (0 for 0)
RECURSIVE ByteLength(_)
ByteLength(n) == IF n = 0 THEN 0 ELSE 1 + ByteLength(n \div 256)

\* the bits a stored field takes in its cell
FieldBits(f) ==
  CASE f.t \in {"uint", "int"} -> f.w
    [] f.t = "buf" -> 8 * Len(f.b)
    [] f.t = "bit" -> 1
    [] f.t = "coins" -> 4 + 8 * ByteLength(f.n)
    [] f.t = "addr" -> IF f.a = "addr_none" THEN 2 ELSE 267
    [] f.t = "dict" -> 1

RECURSIVE BitLength(_)
BitLength(bits) == IF bits = <<>> THEN 0 ELSE FieldBits(Head(bits)) + BitLength(Tail(bits))

\* Builder.availableBits
AvailableBits(b) == CellBits - BitLength(b.bits)

\* the library's writeBuffer: what fits goes into this cell, the rest into a
\* chain of child cells, each built completely before it is referenced
RECURSIVE WriteBuffer(_, _)
WriteBuffer(b, src) ==
  IF Len(src) = 0 THEN b
  ELSE LET bytes == AvailableBits(b) \div 8
       IN IF Len(src) > bytes
          THEN StoreRef(StoreBuffer(b, SliceTo(src, bytes)),
                        EndCell(WriteBuffer(NewBuilder, SliceFrom(src, bytes))))
          ELSE StoreBuffer(b, src)

\* a variant of StoreStringTail that writes the byte length before the bytes
StoreStringTailLengthPrefixed(b, s) == WriteBuffer(StoreUint(b, Len(Utf8(s)) % 256, 8), Utf8(s))

\* storeStringTail(s): the UTF-8 bytes of s, written with writeBuffer
StoreStringTail(b, s) == WriteBuffer(b, Utf8(s))

\* toNano of num/den native units: 10^9 nano per unit
ToNano(num, den) == (num * 1000000000) \div den

\* x ?? d for an optional number, held as <<>> (undefined) or <<x>>
NullishOr(x, d) == IF x = <<>> THEN d ELSE x[1]

----------------------------------------------------------------------------
(* buildTokenMetadataCell: inputs *)

\* jettonOnChainMetadataSpec[k]: an own entry, else whatever the object inherits
\* from Object.prototype (a function for "constructor"), else undefined
ObjectPrototypeKeys == {"constructor"}
JettonOnChainMetadataSpec(k) ==
  CASE k \in {"name", "description", "symbol"} -> "utf8"
    [] k = "image" -> "ascii"
    [] k \in ObjectPrototypeKeys -> "function"
    [] OTHER -> "undefined"

\* JavaScript truthiness of a lookup result
Truthy(x) == x # "undefined"

\* a value of the mapping: undefined, or a string
Undefined == [undef |-> TRUE, chars |-> <<>>]
Str(s) == [undef |-> FALSE, chars |-> s]

\* the character at position i of the generated strings: mostly ASCII, with a
\* two-byte character now and then
GenChar(i) == IF i % 40 = 7 THEN 233 ELSE 48 + (i % 75)
GenStr(n) == Str([i \in 1..n |-> GenChar(i)])

AllKeys == {"name", "description", "image", "symbol", "constructor", "decimals"}
ShortStr == Str(<<233, 8364, 65>>)
SmallValues == {Undefined, Str(<<>>), ShortStr, GenStr(CELL_MAX_SIZE_BYTES + 1)}

\* one-entry mappings whose value sweeps every length up to MaxChunks cells and one more
SweepMappings ==
  { <<[k |-> k, v |-> GenStr(n)]>> :
      k \in {"name", "image"}, n \in 1..(MaxChunks * CELL_MAX_SIZE_BYTES + 1) }

\* mappings of up to MaxEntries entries with distinct keys, in every order
SmallMappings ==
  {<<>>} \cup UNION {
    { [i \in 1..n |-> [k |-> ks[i], v |-> vs[i]]] :
        ks \in { f \in [1..n -> AllKeys] : \A i, j \in 1..n : i # j => f[i] # f[j] },
        vs \in [1..n -> SmallValues] } : n \in 1..MaxEntries }

\* name "MyJetton", symbol "JET1", description "", image undefined
ExampleMapping ==
  << [k |-> "name", v |-> Str(<<77, 121, 74, 101, 116, 116, 111, 110>>)],
     [k |-> "symbol", v |-> Str(<<74, 69, 84, 49>>)],
     [k |-> "description", v |-> Str(<<>>)],
     [k |-> "image", v |-> Undefined] >>

Mappings == SweepMappings \cup SmallMappings \cup {ExampleMapping}

----------------------------------------------------------------------------
(* Shared state shapes *)

NoResult == [kind |-> "none"]
Null == [id |-> 0]
NoMessage == [type |-> "undefined"]
NoArgs == [value |-> 0]
EmptyDict == [x \in {} |-> EmptyCell]

DictSet(d, key, cell) == [x \in DOMAIN d \cup {key} |-> IF x = key THEN cell ELSE d[x]]

Init ==
  /\ op = "idle"
  /\ pc = "idle"
  /\ data = <<>>
  /\ idx = 0
  /\ dict = EmptyDict
  /\ bufferToStore = <<>>
  /\ builders = <<>>
  /\ currentCell = 0
  /\ mintArgs = NoArgs
  /\ opts = NoArgs
  /\ args = NoArgs
  /\ message = NoMessage
  /\ body = Null
  /\ sent = <<>>
  /\ result = NoResult

\* the operation returned or threw; the caller may invoke another one
Return ==
  /\ pc = "done"
  /\ op' = "idle"
  /\ pc' = "idle"
  /\ data' = <<>>
  /\ idx' = 0
  /\ dict' = EmptyDict
  /\ bufferToStore' = <<>>
  /\ builders' = <<>>
  /\ currentCell' = 0
  /\ mintArgs' = NoArgs
  /\ opts' = NoArgs
  /\ args' = NoArgs
  /\ message' = NoMessage
  /\ body' = Null
  /\ sent' = <<>>
  /\ result' = NoResult

----------------------------------------------------------------------------
(* buildTokenMetadataCell *)

\* a variant of IsSkipped that skips undefined only
IsSkippedUndefinedOnly(v) == v.undef

\* line 118: the entry contributes nothing
IsSkipped(v) == v.undef \/ v.chars = <<>>

\* lines 111-113
CallBuildTokenMetadataCell ==
  /\ pc = "idle"
  /\ \E d \in Mappings : data' = d
  /\ op' = "build"
  /\ pc' = "forEach"
  /\ idx' = 1
  /\ dict' = EmptyDict
  /\ UNCHANGED <<bufferToStore, builders, currentCell, mintArgs, opts, args,
                 message, body, sent, result>>

\* lines 115-126: one forEach callback up to the loop
ForEachEntry ==
  /\ op = "build" /\ pc = "forEach" /\ idx <= Len(data)
  /\ LET k == data[idx].k
         v == data[idx].v
         encoding == JettonOnChainMetadataSpec(k)
     IN IF ~Truthy(encoding)
        THEN /\ result' = [kind |-> "error", msg |-> "Unsupported onchain key", key |-> k]
             /\ pc' = "done"
             /\ UNCHANGED <<idx, bufferToStore, builders, currentCell>>
        ELSE IF IsSkipped(v)
        THEN /\ idx' = idx + 1
             /\ UNCHANGED <<pc, bufferToStore, builders, currentCell, result>>
        ELSE /\ bufferToStore' = BufferFrom(v.chars, encoding)
             /\ builders' = << [b |-> StoreUint(NewBuilder, SNAKE_PREFIX, 8), ended |-> FALSE] >>
             /\ currentCell' = 1
             /\ pc' = "while"
             /\ UNCHANGED <<idx, result>>
  /\ UNCHANGED <<op, data, dict, mintArgs, opts, args, message, body, sent>>

\* lines 128-130: store the next chunk in currentCell and drop it from the buffer
WhileStoreChunk ==
  /\ op = "build" /\ pc = "while" /\ Len(bufferToStore) > 0
  /\ builders' = [builders EXCEPT ![currentCell].b =
                    StoreBuffer(@, SliceTo(bufferToStore, CELL_MAX_SIZE_BYTES))]
  /\ bufferToStore' = SliceFrom(bufferToStore, CELL_MAX_SIZE_BYTES)
  /\ pc' = "if131"
  /\ UNCHANGED <<op, data, idx, dict, currentCell, mintArgs, opts, args, message,
                 body, sent, result>>

\* lines 131-135: when bytes remain, a new Builder is referenced from currentCell
\* (storeRef finalizes the new, still empty, builder), currentCell is finalized
\* and the result discarded, and currentCell is reseated to the new builder
IfMoreLinkNewCell ==
  /\ op = "build" /\ pc = "if131"
  /\ IF Len(bufferToStore) > 0
     THEN LET newCell == Len(builders) + 1
              linked == [builders EXCEPT
                           ![currentCell].b = StoreRefBuilder(@, NewBuilder),
                           ![currentCell].ended = TRUE]
          IN /\ builders' = Append(linked, [b |-> NewBuilder, ended |-> TRUE])
             /\ currentCell' = newCell
     ELSE UNCHANGED <<builders, currentCell>>
  /\ pc' = "while"
  /\ UNCHANGED <<op, data, idx, dict, bufferToStore, mintArgs, opts, args, message,
                 body, sent, result>>

\* line 138: the loop is over; the root cell goes into the dictionary
WhileExitDictSet ==
  /\ op = "build" /\ pc = "while" /\ Len(bufferToStore) = 0
  /\ dict' = DictSet(dict, DictKey(data[idx].k), EndCell(builders[1].b))
  /\ builders' = [builders EXCEPT ![1].ended = TRUE]
  /\ idx' = idx + 1
  /\ pc' = "forEach"
  /\ UNCHANGED <<op, data, bufferToStore, currentCell, mintArgs, opts, args, message,
                 body, sent, result>>

\* line 141
ReturnContentCell ==
  /\ op = "build" /\ pc = "forEach" /\ idx > Len(data)
  /\ result' = [kind |-> "cell",
                cell |-> EndCell(StoreDict(StoreInt(NewBuilder, ONCHAIN_CONTENT_PREFIX, 8), dict))]
  /\ pc' = "done"
  /\ UNCHANGED <<op, data, idx, dict, bufferToStore, builders, currentCell, mintArgs,
                 opts, args, message, body, sent>>

----------------------------------------------------------------------------
(* mintBody *)

Addresses == {"A", "B"}
Amounts == {0, 500, 1000}
QueryIds == {<<>>, <<0>>, <<7>>}

\* a variant of MintBody whose internal transfer carries query id 0
MintBodyChildQueryZero(owner, jettonAmount, transferToJWallet, queryId) ==
  EndCell(
    StoreRef(
      StoreCoins(
        StoreAddress(
          StoreUint(StoreUint(NewBuilder, OpMint, 32), NullishOr(queryId, 0), 64),
          owner),
        transferToJWallet),
      EndCell(
        StoreBit(
          StoreCoins(
            StoreAddress(
              StoreAddress(
                StoreCoins(
                  StoreUint(StoreUint(NewBuilder, OpInternalTransfer, 32), 0, 64),
                  jettonAmount),
                "addr_none"),
              owner),
            ToNano(1, 1000)),
          FALSE))))

\* lines 46-70
MintBody(owner, jettonAmount, transferToJWallet, queryId) ==
  EndCell(
    StoreRef(
      StoreCoins(
        StoreAddress(
          StoreUint(StoreUint(NewBuilder, OpMint, 32), NullishOr(queryId, 0), 64),
          owner),
        transferToJWallet),
      EndCell(
        StoreBit(
          StoreCoins(
            StoreAddress(
              StoreAddress(
                StoreCoins(
                  StoreUint(StoreUint(NewBuilder, OpInternalTransfer, 32),
                            NullishOr(queryId, 0), 64),
                  jettonAmount),
                "addr_none"),
              owner),
            ToNano(1, 1000)),
          FALSE))))

CallMintBody ==
  /\ pc = "idle"
  /\ \E owner \in Addresses, jettonAmount \in Amounts, transferToJWallet \in Amounts,
        queryId \in QueryIds :
       mintArgs' = [owner |-> owner, jettonAmount |-> jettonAmount,
                    transferToJWallet |-> transferToJWallet, queryId |-> queryId]
  /\ op' = "mintBody"
  /\ pc' = "mint52"
  /\ UNCHANGED <<data, idx, dict, bufferToStore, builders, currentCell, opts, args,
                 message, body, sent, result>>

\* lines 52-69
MintBodyReturn ==
  /\ op = "mintBody" /\ pc = "mint52"
  /\ result' = [kind |-> "cell",
                cell |-> MintBody(mintArgs.owner, mintArgs.jettonAmount,
                                  mintArgs.transferToJWallet, mintArgs.queryId)]
  /\ pc' = "done"
  /\ UNCHANGED <<op, data, idx, dict, bufferToStore, builders, currentCell, mintArgs,
                 opts, args, message, body, sent>>

----------------------------------------------------------------------------
(* Jetton.sendMint *)

\* a variant of SendMintBody that takes the transfer fee from opts.amount
SendMintBodyFeeFromAmount(o) == MintBody(o.to, o.amount, o.amount, o.queryID)

\* line 194
SendMintBody(o) == MintBody(o.to, o.amount, o.value, o.queryID)

CallSendMint ==
  /\ pc = "idle"
  /\ \E value \in Amounts, to \in Addresses, amount \in Amounts, queryID \in QueryIds :
       opts' = [value |-> value, to |-> to, amount |-> amount, queryID |-> queryID]
  /\ op' = "sendMint"
  /\ pc' = "sm191"
  /\ UNCHANGED <<data, idx, dict, bufferToStore, builders, currentCell, mintArgs, args,
                 message, body, sent, result>>

\* lines 191-195: the awaited provider.internal call
SendMintInternal ==
  /\ op = "sendMint" /\ pc = "sm191"
  /\ sent' = Append(sent, [value |-> opts.value, sendMode |-> "PAY_GAS_SEPARATELY",
                           body |-> SendMintBody(opts)])
  /\ result' = [kind |-> "void"]
  /\ pc' = "done"
  /\ UNCHANGED <<op, data, idx, dict, bufferToStore, builders, currentCell, mintArgs,
                 opts, args, message, body>>

----------------------------------------------------------------------------
(* Jetton.send *)

Mint == <<77, 105, 110, 116>>
OwnerClaim == <<79, 119, 110, 101, 114, 32, 67, 108, 97, 105, 109>>

StringMessage(s) ==
  [type |-> "string", isNull |-> FALSE, isSlice |-> FALSE, tag |-> "undefined", chars |-> s]

\* the values send may be handed: the two tagged objects, an object with another
\* tag, a Slice, null, a number, and strings (empty, reserved, free-form, long)
Messages ==
  { [type |-> "object", isNull |-> FALSE, isSlice |-> FALSE, tag |-> "JettonInitial",
     treasury |-> a, minting_info |-> EmptyCell,
     token_content |-> EndCell(StoreInt(NewBuilder, ONCHAIN_CONTENT_PREFIX, 8))] :
      a \in Addresses }
  \cup
  { [type |-> "object", isNull |-> FALSE, isSlice |-> FALSE, tag |-> "TokenBurnNotification",
     query_id |-> q, amount |-> n, response_destination |-> a] :
      q \in {0, 7}, n \in Amounts, a \in Addresses }
  \cup
  { [type |-> "object", isNull |-> FALSE, isSlice |-> FALSE, tag |-> "Other"],
    [type |-> "object", isNull |-> FALSE, isSlice |-> TRUE, tag |-> "undefined"],
    [type |-> "object", isNull |-> TRUE, isSlice |-> FALSE, tag |-> "undefined"],
    [type |-> "number", isNull |-> FALSE, isSlice |-> FALSE, tag |-> "undefined"] }
  \cup
  { StringMessage(s) :
      s \in {<<>>, Mint, OwnerClaim, ShortStr.chars, GenStr(CELL_MAX_SIZE_BYTES + 4).chars} }

SendArgs == { [value |-> v, bounce |-> b] : v \in {1, 500}, b \in {"true", "null", "undefined"} }

\* lines 84-92
StoreJettonInitial(b, src) ==
  StoreRef(
    StoreRef(StoreAddress(StoreUintBytes(b, OpJettonInitial), src.treasury),
             src.minting_info),
    src.token_content)

\* lines 101-109
StoreTokenBurnNotification(b, src) ==
  StoreAddress(
    StoreCoins(StoreUint(StoreUintBytes(b, OpTokenBurnNotification), src.query_id, 64),
               src.amount),
    src.response_destination)

\* lines 206-209 and 223-226: a non-null object that is no Slice and carries the tag
IsTagged(m, tag) ==
  /\ ~m.isNull
  /\ m.type = "object"
  /\ ~m.isSlice
  /\ m.tag = tag

\* line 213
IsString(m) == m.type = "string"

\* a variant of IsLiteral that matches nothing
IsLiteralNever(m, literal) == FALSE

\* lines 216 and 219: message === literal
IsLiteral(m, literal) == m.type = "string" /\ m.chars = literal

\* lines 214, 217 and 220: the zero-opcode text frame
TextBody(m) == EndCell(StoreStringTail(StoreUint(NewBuilder, 0, 32), m.chars))

\* body = <a newly built Cell>: the next Cell object built by this call
Assigned(cell) == [id |-> body.id + 1, cell |-> cell]

\* a variant of BodyIsNull that never holds
BodyIsNullNever(b) == FALSE

\* line 230
BodyIsNull(b) == b = Null

CallSend ==
  /\ pc = "idle"
  /\ \E a \in SendArgs, m \in Messages : args' = a /\ message' = m
  /\ op' = "send"
  /\ pc' = "s205"
  /\ body' = Null
  /\ UNCHANGED <<data, idx, dict, bufferToStore, builders, currentCell, mintArgs, opts,
                 sent, result>>

\* lines 205-212
SendIfJettonInitial ==
  /\ op = "send" /\ pc = "s205"
  /\ IF IsTagged(message, "JettonInitial")
     THEN body' = Assigned(EndCell(StoreJettonInitial(NewBuilder, message)))
     ELSE UNCHANGED body
  /\ pc' = "s213"
  /\ UNCHANGED <<op, data, idx, dict, bufferToStore, builders, currentCell, mintArgs,
                 opts, args, message, sent, result>>

\* lines 213-215
SendIfString ==
  /\ op = "send" /\ pc = "s213"
  /\ IF IsString(message)
     THEN body' = Assigned(TextBody(message))
     ELSE UNCHANGED body
  /\ pc' = "s216"
  /\ UNCHANGED <<op, data, idx, dict, bufferToStore, builders, currentCell, mintArgs,
                 opts, args, message, sent, result>>

\* lines 216-218
SendIfOwnerClaim ==
  /\ op = "send" /\ pc = "s216"
  /\ IF IsLiteral(message, OwnerClaim)
     THEN body' = Assigned(TextBody(message))
     ELSE UNCHANGED body
  /\ pc' = "s219"
  /\ UNCHANGED <<op, data, idx, dict, bufferToStore, builders, currentCell, mintArgs,
                 opts, args, message, sent, result>>

\* lines 219-221
SendIfMint ==
  /\ op = "send" /\ pc = "s219"
  /\ IF IsLiteral(message, Mint)
     THEN body' = Assigned(TextBody(message))
     ELSE UNCHANGED body
  /\ pc' = "s222"
  /\ UNCHANGED <<op, data, idx, dict, bufferToStore, builders, currentCell, mintArgs,
                 opts, args, message, sent, result>>

\* lines 222-229
SendIfTokenBurnNotification ==
  /\ op = "send" /\ pc = "s222"
  /\ IF IsTagged(message, "TokenBurnNotification")
     THEN body' = Assigned(EndCell(StoreTokenBurnNotification(NewBuilder, message)))
     ELSE UNCHANGED body
  /\ pc' = "s230"
  /\ UNCHANGED <<op, data, idx, dict, bufferToStore, builders, currentCell, mintArgs,
                 opts, args, message, sent, result>>

\* lines 230-232
SendCheckBody ==
  /\ op = "send" /\ pc = "s230"
  /\ IF BodyIsNull(body)
     THEN /\ result' = [kind |-> "error", msg |-> "Invalid message type"]
          /\ pc' = "done"
     ELSE /\ pc' = "s234"
          /\ UNCHANGED result
  /\ UNCHANGED <<op, data, idx, dict, bufferToStore, builders, currentCell, mintArgs,
                 opts, args, message, body, sent>>

\* line 234: the awaited provider.internal call
SendInternal ==
  /\ op = "send" /\ pc = "s234"
  /\ sent' = Append(sent, [value |-> args.value, bounce |-> args.bounce, body |-> body])
  /\ result' = [kind |-> "void"]
  /\ pc' = "done"
  /\ UNCHANGED <<op, data, idx, dict, bufferToStore, builders, currentCell, mintArgs,
                 opts, args, message, body>>

Next ==
  \/ CallBuildTokenMetadataCell
  \/ ForEachEntry
  \/ WhileStoreChunk
  \/ IfMoreLinkNewCell
  \/ WhileExitDictSet
  \/ ReturnContentCell
  \/ CallMintBody
  \/ MintBodyReturn
  \/ CallSendMint
  \/ SendMintInternal
  \/ CallSend
  \/ SendIfJettonInitial
  \/ SendIfString
  \/ SendIfOwnerClaim
  \/ SendIfMint
  \/ SendIfTokenBurnNotification
  \/ SendCheckBody
  \/ SendInternal
  \/ Return

Spec == Init /\ [][Next]_vars

----------------------------------------------------------------------------
(* Reading a cell chain back, as the receiver of the content does *)

\* the bytes a stored field contributes to its cell's payload
FieldBytes(f) ==
  CASE f.t = "uint" -> f.bytes
    [] f.t = "buf" -> f.b
    [] OTHER -> <<>>

RECURSIVE PayloadOf(_)
PayloadOf(bits) == IF bits = <<>> THEN <<>> ELSE FieldBytes(Head(bits)) \o PayloadOf(Tail(bits))

\* the payload bytes of a cell
CellPayload(cell) == PayloadOf(cell.bits)

\* the payload bytes of a chain, root to leaf, following the first child link
RECURSIVE SnakeBytes(_)
SnakeBytes(cell) ==
  CellPayload(cell) \o (IF cell.refs = <<>> THEN <<>> ELSE SnakeBytes(cell.refs[1]))

\* the decoded value: the chain's bytes with the 1-byte prefix stripped once
SnakeDecode(root) == Tail(SnakeBytes(root))

RECURSIVE ChainLength(_)
ChainLength(cell) == IF cell.refs = <<>> THEN 1 ELSE 1 + ChainLength(cell.refs[1])

\* every non-terminal cell holds exactly cap payload bytes and one child, the
\* terminal cell holds between 1 and cap bytes and no child
RECURSIVE ChainWellChunked(_, _, _)
ChainWellChunked(cell, prefixLen, cap) ==
  LET n == Len(CellPayload(cell)) - prefixLen
  IN IF cell.refs # <<>>
     THEN n = cap /\ Len(cell.refs) = 1 /\ ChainWellChunked(cell.refs[1], 0, cap)
     ELSE 0 < n /\ n <= cap

----------------------------------------------------------------------------
(* Properties of buildTokenMetadataCell *)

RecognizedKeys == {"name", "description", "image", "symbol"}

BuildReturned == op = "build" /\ pc = "done" /\ result.kind = "cell"
\* the dictionary stored in the returned content cell
ReturnedDict == result.cell.bits[2].d
\* the bytes the value of entry i is encoded to
EntryBytes(i) == BufferFrom(data[i].v.chars, JettonOnChainMetadataSpec(data[i].k))
\* entry i has a recognized key and a value that is a non-empty string
EntryStored(i) ==
  /\ data[i].k \in RecognizedKeys
  /\ ~data[i].v.undef
  /\ data[i].v.chars # <<>>

\* C1: for every value whose encoded bytes v have 0 < len(v) <= 10*C, the chain
\* stored for it, read root to leaf with the prefix stripped once, is exactly v.
SnakeRoundTrip ==
  BuildReturned =>
    \A i \in 1..Len(data) :
      (EntryStored(i) /\ Len(EntryBytes(i)) <= 10 * 126) =>
        /\ DictKey(data[i].k) \in DOMAIN ReturnedDict
        /\ SnakeDecode(ReturnedDict[DictKey(data[i].k)]) = EntryBytes(i)

\* C4: in the chain stored for a non-empty value every non-terminal cell holds
\* exactly 126 payload bytes and one child, the terminal cell holds 1..126 bytes
\* and no child, and a value of k*126 bytes is stored in exactly k cells.
ChunkStructure ==
  BuildReturned =>
    \A i \in 1..Len(data) :
      EntryStored(i) =>
        LET chain == ReturnedDict[DictKey(data[i].k)]
            len == Len(EntryBytes(i))
        IN /\ ChainWellChunked(chain, 1, 126)
           /\ (len % 126 = 0 => ChainLength(chain) = len \div 126)

\* C8: during a snake encode, a builder that has been finalized (endCell) or
\* attached to its parent as a child reference is never written to again.
NoWriteAfterFinalization ==
  [][ (op = "build" /\ pc \in {"while", "if131"}) =>
        \A i \in DOMAIN builders :
          builders[i].ended => builders'[i].b = builders[i].b ]_vars

\* C2: a mapping with a key outside {name, description, image, symbol}, at any
\* position and whatever its value, never yields a cell: the call ends with the
\* unsupported-key error.
RejectsUnsupportedKey ==
  (op = "build" /\ \E i \in 1..Len(data) : data[i].k \notin RecognizedKeys) =>
    /\ result.kind # "cell"
    /\ pc = "done" => (result.kind = "error" /\ result.msg = "Unsupported onchain key")

\* C3: for a mapping whose keys are all recognized, the returned dictionary holds
\* the hash-derived key of an entry exactly when the entry's value is a non-empty
\* string, and no stored value is zero-length.
OmissionProperty ==
  (op = "build" /\ pc = "done" /\ \A i \in 1..Len(data) : data[i].k \in RecognizedKeys) =>
    /\ result.kind = "cell"
    /\ DOMAIN ReturnedDict = { DictKey(data[i].k) : i \in { j \in 1..Len(data) : EntryStored(j) } }
    /\ \A key \in DOMAIN ReturnedDict : Len(SnakeBytes(ReturnedDict[key])) > 1

\* C3 witness: the example mapping returned a dictionary of exactly name and symbol
OmissionWitness ==
  /\ BuildReturned
  /\ data = ExampleMapping
  /\ DOMAIN ReturnedDict = {DictKey("name"), DictKey("symbol")}

----------------------------------------------------------------------------
(* Properties of mintBody and Jetton.sendMint *)

\* the mint frame for owner a, query id q, fee and amount, field by field
IsMintFrame(cell, a, q, fee, amount) ==
  /\ cell.bits = << [t |-> "uint", w |-> 32, bytes |-> <<0, 0, 0, 21>>],
                    [t |-> "uint", w |-> 64, bytes |-> <<0, 0, 0, 0, 0, 0, 0, q>>],
                    [t |-> "addr", a |-> a],
                    [t |-> "coins", n |-> fee] >>
  /\ Len(cell.refs) = 1
  /\ cell.refs[1].bits = << [t |-> "uint", w |-> 32, bytes |-> <<23, 141, 69, 25>>],
                            [t |-> "uint", w |-> 64, bytes |-> <<0, 0, 0, 0, 0, 0, 0, q>>],
                            [t |-> "coins", n |-> amount],
                            [t |-> "addr", a |-> "addr_none"],
                            [t |-> "addr", a |-> a],
                            [t |-> "coins", n |-> 1000000],
                            [t |-> "bit", x |-> FALSE] >>
  /\ cell.refs[1].refs = <<>>

\* C5: mintBody returns opcode 0x15, the query id (0 when absent), the owner
\* address, the transfer fee and exactly one child; the child holds opcode
\* 0x178d4519, the same query id, the jetton amount, the no-address sentinel, the
\* owner address, the forwarding fee of 0.001 unit and one final 0 bit.
MintFrameLayout ==
  (op = "mintBody" /\ pc = "done") =>
    /\ result.kind = "cell"
    /\ IsMintFrame(result.cell, mintArgs.owner,
                   IF mintArgs.queryId = <<>> THEN 0 ELSE mintArgs.queryId[1],
                   mintArgs.transferToJWallet, mintArgs.jettonAmount)

\* C5 witness: MintRequest(owner = A, jettonAmount = 1000, transferFee = 500, queryId = 7)
MintFrameWitness ==
  /\ op = "mintBody" /\ pc = "done"
  /\ mintArgs = [owner |-> "A", jettonAmount |-> 1000, transferToJWallet |-> 500,
                 queryId |-> <<7>>]
  /\ result.cell.refs[1].bits[2].bytes = <<0, 0, 0, 0, 0, 0, 0, 7>>

\* C10: sendMint makes exactly one outbound call, with value opts.value and the
\* mint frame whose fee is opts.value, whose owner and destination are opts.to,
\* whose amount is opts.amount and whose query id is opts.queryID or 0.
SendMintBinding ==
  (op = "sendMint") =>
    /\ pc # "done" => sent = <<>>
    /\ pc = "done" =>
         /\ Len(sent) = 1
         /\ sent[1].value = opts.value
         /\ IsMintFrame(sent[1].body, opts.to,
                        IF opts.queryID = <<>> THEN 0 ELSE opts.queryID[1],
                        opts.value, opts.amount)

\* C10 witness: a mint sent without a query id, its value differing from the amount
SendMintWitness ==
  /\ op = "sendMint" /\ pc = "done"
  /\ opts.queryID = <<>>
  /\ opts.value = 500 /\ opts.amount = 1000
  /\ Len(sent) = 1

----------------------------------------------------------------------------
(* Properties of Jetton.send *)

\* the message has one of the three accepted shapes
Recognized(m) ==
  \/ m.type = "string"
  \/ /\ m.type = "object" /\ ~m.isNull /\ ~m.isSlice
     /\ m.tag \in {"JettonInitial", "TokenBurnNotification"}

\* C6: a message of no accepted shape makes send fail with the invalid-message
\* error, without any outbound call and without any body; a message of an
\* accepted shape leads to exactly one outbound call, made after the body is built.
DispatchRejection ==
  (op = "send") =>
    /\ ~Recognized(message) =>
         /\ sent = <<>>
         /\ body = Null
         /\ pc = "done" => (result.kind = "error" /\ result.msg = "Invalid message type")
    /\ Recognized(message) =>
         /\ pc = "done" => (Len(sent) = 1 /\ result.kind = "void")
         /\ pc # "done" => sent = <<>>
         /\ sent # <<>> => (body # Null /\ sent[1].body = body)

\* C6 witness: an object with an unknown tag was rejected
DispatchRejectionWitness ==
  /\ op = "send" /\ pc = "done"
  /\ message.type = "object" /\ message.tag = "Other"
  /\ result.kind = "error"
  /\ sent = <<>>

\* C7: for every string, the body handed to the outbound call is 32 zero bits
\* followed by the UTF-8 bytes of the string, with no length prefix; "Mint" and
\* "Owner Claim" get exactly that framing.
TextFraming ==
  (op = "send" /\ pc = "done" /\ message.type = "string") =>
    /\ Len(sent) = 1
    /\ sent[1].body.cell.bits[1] = [t |-> "uint", w |-> 32, bytes |-> <<0, 0, 0, 0>>]
    /\ SnakeBytes(sent[1].body.cell) = <<0, 0, 0, 0>> \o Utf8(message.chars)
    /\ message.chars = Mint =>
         SnakeBytes(sent[1].body.cell) = <<0, 0, 0, 0, 77, 105, 110, 116>>
    /\ message.chars = OwnerClaim =>
         SnakeBytes(sent[1].body.cell) =
           <<0, 0, 0, 0, 79, 119, 110, 101, 114, 32, 67, 108, 97, 105, 109>>
    /\ message.chars = <<>> => SnakeBytes(sent[1].body.cell) = <<0, 0, 0, 0>>

\* C7 witness: "Owner Claim" was sent
TextFramingWitness ==
  /\ op = "send" /\ pc = "done"
  /\ message.type = "string" /\ message.chars = OwnerClaim
  /\ Len(sent) = 1

\* C9: for every accepted message exactly one encoding branch runs: the body
\* checked at line 230 is the first Cell the call has built.
ExactlyOneBranch ==
  (op = "send" /\ pc \in {"s230", "s234", "done"} /\ body # Null) => body.id = 1

\* C9, amended: for every accepted message other than "Mint" and "Owner Claim"
\* exactly one branch runs; for "Mint" and "Owner Claim" exactly two run (the
\* string branch, then the literal's own), and every branch that runs for a
\* string assigns the same zero-opcode text frame.
BranchesPerMessage ==
  (op = "send") =>
    /\ (body # Null /\ message.type = "string") =>
         SnakeBytes(body.cell) = <<0, 0, 0, 0>> \o Utf8(message.chars)
    /\ (pc \in {"s230", "s234", "done"} /\ body # Null) =>
         body.id = IF message.type = "string" /\ message.chars \in {Mint, OwnerClaim}
                   THEN 2 ELSE 1

\* C9 witness: "Mint" was sent with the second Cell built for it
BranchesWitness ==
  /\ op = "send" /\ pc = "done"
  /\ message.type = "string" /\ message.chars = Mint
  /\ body.id = 2
  /\ Len(sent) = 1

====
